---- MODULE Spec2Model ----
(***************************************************************************)
(* Session and reminder core of the bot in src/main.py: the /ask rate      *)
(* limiter, the two-tier conversation history, the reply-chain pointer and *)
(* the reminder dispatch loop.                                             *)
(*                                                                         *)
(* A handler is a coroutine: it runs without interruption between two      *)
(* awaits.  Each action below is one such segment: the await the           *)
(* invocation was suspended at returns with some outcome, and the code     *)
(* runs up to the next await (or to the end of the handler).               *)
(*                                                                         *)
(* The handlers test the collection objects for truth (`if                 *)
(* conversations_collection:`).  The model takes a connected collection to *)
(* be truthy and None to be falsy, which is how the program behaves where  *)
(* it starts at all with a reachable store.  Documents carry the time of   *)
(* their insertion, so a collection is kept in insertion order and "most   *)
(* recent" is "last".                                                      *)
(***************************************************************************)
EXTENDS Integers, Sequences, FiniteSets, TLC

\* ---------------------------------------------------------------- constants
WINDOW == 60
LIMIT == 5
TICK == 60
FIND_LIMIT == 5
HISTORY_READ == 5
PH_OFFSET == 28800
TTL_REMINDERS == 2592000

\* ------------------------------------------------------------------- bounds
MaxInv == 2
MaxCalls == 7
MaxTime == 122
MaxPre == 8
MaxClears == 1
MaxReminders == 2
MaxDays == 32
MaxBurst == 6

Users == {"u1", "u2"}
Channels == {"c1"}
Deltas == {60, 61}
Guilds == {"g1"}
DaySteps == {86400}
CreatorPhrases == {"who made you", "who created you", "who created this bot", "who made this bot"}
Prompts == {" Who Made You ", "hello"}
None == 0

VARIABLES
    now,                        \* the clock (seconds)
    ask_rate_limit,             \* bot.ask_rate_limit: user -> list of timestamps
    conversations,              \* bot.conversations: user -> list of turns
    last_message_id,            \* bot.last_message_id: (user, channel) -> message id
    conversations_collection,   \* FALSE when the module-level name is None
    convDocs,                   \* documents of db.conversations, per user, oldest first
    inv,                        \* the /ask invocations, by index
    calls,                      \* per user: the admission checks made, in order
    finds,                      \* per user: the history queries sent to the store (TRUE: answered)
    hist,                       \* per user: operations on the history, in order
    ready,                      \* the platform connection is established
    reminders,                  \* documents of db.reminders
    tick,                       \* check_reminders: the dispatch loop
    attempts,                   \* per reminder id: the sends attempted and the deletes that followed
    born,                       \* per reminder id: <<>> or <<time of insertion, due time>>
    acks,                       \* per /remindme call: <<>> or the confirmation it sent
    unresolvable                \* users, guilds and channels the platform no longer resolves

vars == <<now, ask_rate_limit, conversations, last_message_id,
          conversations_collection, convDocs, inv, calls, finds, hist,
          ready, reminders, tick, attempts, born, acks, unresolvable>>

remVars == <<ready, reminders, tick, attempts, born, acks, unresolvable>>
askVars == <<ask_rate_limit, conversations, last_message_id, convDocs, inv,
             calls, finds, hist>>

\* ------------------------------------------------------------------ helpers
Last(s) == s[Len(s)]

\* s[-n:]
Tail_n(s, n) == IF Len(s) <= n THEN s ELSE SubSeq(s, Len(s) - n + 1, Len(s))

\* list.reverse()
Reverse(s) == [k \in 1..Len(s) |-> s[Len(s) + 1 - k]]

\* the comprehension that keeps every timestamp
Prune_Nothing(timestamps, current_time) == timestamps

\* [t for t in timestamps if current_time - t <= 60]
Prune(timestamps, current_time) ==
    SelectSeq(timestamps, LAMBDA t : current_time - t <= WINDOW)

\* the decision with the threshold off by one
RateRejects_OffByOne(timestamps) == Len(timestamps) > LIMIT + 1

\* if len(timestamps) > 5  -- timestamps is the list as it was before the
\* comprehension built the pruned copy, with current_time appended
RateRejects(timestamps) == Len(timestamps) > LIMIT

\* the query sorted the other way round, sort("timestamp", 1): the oldest turns
FindRecent_Oldest(docs) == SubSeq(docs, 1, IF Len(docs) < FIND_LIMIT THEN Len(docs) ELSE FIND_LIMIT)

\* .find({"user_id": u}).sort("timestamp", -1).limit(5): newest first
FindRecent(docs) == Reverse(Tail_n(docs, FIND_LIMIT))

\* a turn as the cache holds it
Turn(p, a) == [user |-> p, assistant |-> a]

OldTurn(k) == Turn("hello", <<"old", k>>)
PreLoaded(n) == [k \in 1..n |-> OldTurn(k)]

\* prompt.strip().lower() left as typed
Normalize_AsTyped(p) == p

\* prompt.strip().lower(), on the prompts the model types
Normalize(p) ==
    CASE p = " Who Made You " -> "who made you"
      [] p = "Who created this bot" -> "who created this bot"
      [] OTHER -> p

\* what an invocation finds when it starts
Snapshot(u, c) ==
    [conv |-> conversations[u], docs |-> convDocs[u],
     ptr |-> last_message_id[<<u, c>>], nfinds |-> Len(finds[u]), nhist |-> Len(hist[u]),
     ncalls |-> Len(calls[u]), window |-> ask_rate_limit[u]]

\* api, fetched: the outcome of the completion call and of fetch_message,
\* "none" while not made;  cleared: the place in hist of the /clearhistory
\* that ran while the invocation was suspended at the completion call, 0 if
\* none did;  pre: the snapshot taken when the invocation started
IdleInv == [pc |-> "idle", user |-> "u1", channel |-> "c1", prompt |-> "hello",
            history |-> <<>>, target |-> None, admitted |-> "na",
            followups |-> <<>>, replied |-> FALSE,
            api |-> "none", fetched |-> "none", cleared |-> 0,
            pre |-> [conv |-> <<>>, docs |-> <<>>, ptr |-> None, nfinds |-> 0, nhist |-> 0,
                     ncalls |-> 0, window |-> <<>>]]

\* ---------------------------------------------------------------------- init
InitWith(slots, sizes) ==
    /\ now = 0
    /\ ask_rate_limit = [u \in Users |-> <<>>]
    /\ conversations = [u \in Users |-> <<>>]
    /\ last_message_id = [k \in Users \X Channels |-> None]
    /\ conversations_collection \in BOOLEAN
    /\ \E n \in sizes : convDocs = [u \in Users |-> IF u = "u1" THEN PreLoaded(n) ELSE <<>>]
    /\ inv = [i \in 1..slots |-> IdleInv]
    /\ calls = [u \in Users |-> <<>>]
    /\ finds = [u \in Users |-> <<>>]
    /\ hist = [u \in Users |-> <<>>]
    /\ ready = FALSE
    /\ reminders = {}
    /\ tick = [pc |-> "idle", queue |-> <<>>, ran |-> FALSE, last |-> 0,
               answered |-> FALSE, skipped |-> {}, aborted |-> FALSE]
    /\ attempts = [id \in 1..MaxReminders |-> <<>>]
    /\ born = [id \in 1..MaxReminders |-> <<>>]
    /\ acks = [id \in 1..MaxReminders |-> <<>>]
    /\ unresolvable = {}

\* The store holds what earlier runs of the process left for u1: nothing,
\* fewer turns than a read takes, or more.
Init == InitWith(MaxInv, {0, 2, MaxPre})

\* ------------------------------------------------------------ time passing
AdvanceTime(d) ==
    /\ now + d <= MaxTime
    /\ now' = now + d
    /\ UNCHANGED <<ask_rate_limit, conversations, last_message_id,
                   conversations_collection, convDocs, inv, calls, finds, hist>>
    /\ UNCHANGED remVars

\* ------------------------------------------------------------------- /ask
Set(i, f) == [inv EXCEPT ![i] = f]
Goto(i, pc) == Set(i, [inv[i] EXCEPT !.pc = pc])
Followup(i, kind, pc) ==
    Set(i, [inv[i] EXCEPT !.pc = pc, !.followups = Append(@, kind)])

InFlight(i) == inv[i].pc \notin {"idle", "done"}

\* the handler that applies the rate limit before it awaits defer()
AskStart_CheckFirst(i, u, c, p) ==
    /\ inv[i].pc = "idle"
    /\ \A j \in DOMAIN inv : j < i => inv[j].pc # "idle"
    /\ inv' = Set(i, [IdleInv EXCEPT !.pc = "defer", !.user = u, !.channel = c, !.prompt = p,
                                     !.pre = Snapshot(u, c)])
    /\ ask_rate_limit' = [ask_rate_limit EXCEPT ![u] = Prune(Append(@, now), now)]
    /\ calls' = [calls EXCEPT ![u] = Append(@,
                    [t |-> now, ok |-> ~RateRejects(Append(ask_rate_limit[u], now))])]
    /\ UNCHANGED <<now, conversations, last_message_id,
                   conversations_collection, convDocs, finds, hist>>
    /\ UNCHANGED remVars

\* The platform delivers an /ask interaction; the handler reads the ids and
\* awaits interaction.response.defer().
AskStart(i, u, c, p) ==
    /\ inv[i].pc = "idle"
    /\ \A j \in DOMAIN inv : j < i => inv[j].pc # "idle"
    /\ inv' = Set(i, [IdleInv EXCEPT !.pc = "defer", !.user = u, !.channel = c, !.prompt = p,
                                     !.pre = Snapshot(u, c)])
    /\ UNCHANGED <<now, ask_rate_limit, conversations, last_message_id,
                   conversations_collection, convDocs, calls, finds, hist>>
    /\ UNCHANGED remVars

\* the handler that keeps the timestamp of an admitted call only
AskDeferred_ForgetRejected(i, ok) ==
    /\ inv[i].pc = "defer"
    /\ LET u == inv[i].user
           current_time == now
           timestamps == Append(ask_rate_limit[u], current_time)
       IN  IF ~ok
           THEN /\ inv' = Goto(i, "done")
                /\ UNCHANGED <<ask_rate_limit, calls>>
           ELSE /\ ask_rate_limit' = [ask_rate_limit EXCEPT ![u] =
                                         IF RateRejects(timestamps)
                                         THEN Prune(ask_rate_limit[u], current_time)
                                         ELSE Prune(timestamps, current_time)]
                /\ calls' = [calls EXCEPT ![u] = Append(@,
                                [t |-> current_time, ok |-> ~RateRejects(timestamps)])]
                /\ inv' = IF RateRejects(timestamps)
                          THEN Set(i, [inv[i] EXCEPT !.pc = "sendLimit", !.admitted = "no"])
                          ELSE Set(i, [inv[i] EXCEPT !.pc = "typing", !.admitted = "yes"])
    /\ UNCHANGED <<now, conversations, last_message_id, conversations_collection,
                   convDocs, finds, hist>>
    /\ UNCHANGED remVars

\* the handler that takes the user's window before it awaits defer() and
\* applies the rate limit to that copy afterwards
AskDeferred_ReadBeforeDefer(i, ok) ==
    /\ inv[i].pc = "defer"
    /\ LET u == inv[i].user
           current_time == now
           timestamps == Append(inv[i].pre.window, current_time)
       IN  IF ~ok
           THEN /\ inv' = Goto(i, "done")
                /\ UNCHANGED <<ask_rate_limit, calls>>
           ELSE /\ ask_rate_limit' = [ask_rate_limit EXCEPT ![u] = Prune(timestamps, current_time)]
                /\ calls' = [calls EXCEPT ![u] = Append(@,
                                [t |-> current_time, ok |-> ~RateRejects(timestamps)])]
                /\ inv' = IF RateRejects(timestamps)
                          THEN Set(i, [inv[i] EXCEPT !.pc = "sendLimit", !.admitted = "no"])
                          ELSE Set(i, [inv[i] EXCEPT !.pc = "typing", !.admitted = "yes"])
    /\ UNCHANGED <<now, conversations, last_message_id, conversations_collection,
                   convDocs, finds, hist>>
    /\ UNCHANGED remVars

\* the handler without the return after the throttling branch: a rejected
\* call goes on like an admitted one
AskDeferred_NoStop(i, ok) ==
    /\ inv[i].pc = "defer"
    /\ LET u == inv[i].user
           current_time == now
           timestamps == Append(ask_rate_limit[u], current_time)
       IN  IF ~ok
           THEN /\ inv' = Goto(i, "done")
                /\ UNCHANGED <<ask_rate_limit, calls>>
           ELSE /\ ask_rate_limit' = [ask_rate_limit EXCEPT ![u] = Prune(timestamps, current_time)]
                /\ calls' = [calls EXCEPT ![u] = Append(@,
                                [t |-> current_time, ok |-> ~RateRejects(timestamps)])]
                /\ inv' = Set(i, [inv[i] EXCEPT !.pc = "typing",
                              !.admitted = IF RateRejects(timestamps) THEN "no" ELSE "yes"])
    /\ UNCHANGED <<now, conversations, last_message_id, conversations_collection,
                   convDocs, finds, hist>>
    /\ UNCHANGED remVars

\* defer() returns.  On failure the exception leaves the handler (the try
\* block has not been entered).  Otherwise the rate limit is applied and the
\* handler awaits either the throttling notice or channel.typing().
AskDeferred(i, ok) ==
    /\ inv[i].pc = "defer"
    /\ LET u == inv[i].user
           current_time == now
           timestamps == Append(ask_rate_limit[u], current_time)
       IN  IF ~ok
           THEN /\ inv' = Goto(i, "done")
                /\ UNCHANGED <<ask_rate_limit, calls>>
           ELSE /\ ask_rate_limit' = [ask_rate_limit EXCEPT ![u] = Prune(timestamps, current_time)]
                /\ calls' = [calls EXCEPT ![u] = Append(@,
                                [t |-> current_time, ok |-> ~RateRejects(timestamps)])]
                /\ inv' = IF RateRejects(timestamps)
                          THEN Set(i, [inv[i] EXCEPT !.pc = "sendLimit", !.admitted = "no"])
                          ELSE Set(i, [inv[i] EXCEPT !.pc = "typing", !.admitted = "yes"])
    /\ UNCHANGED <<now, conversations, last_message_id, conversations_collection,
                   convDocs, finds, hist>>
    /\ UNCHANGED remVars

\* followup.send of the throttling notice returns; the handler returns (or
\* the exception leaves it).
AskLimitSent(i, ok) ==
    /\ inv[i].pc = "sendLimit"
    /\ inv' = IF ok THEN Followup(i, "limit", "done") ELSE Goto(i, "done")
    /\ UNCHANGED <<now, ask_rate_limit, conversations, last_message_id,
                   conversations_collection, convDocs, calls, finds, hist>>
    /\ UNCHANGED remVars

\* an entry of the observation log hist
HistEntry(op, h, ok) == [op |-> op, h |-> h, ok |-> ok]

\* the hydration block without the final reverse()
HydratedCache_NoReverse(cache, docs) ==
    IF cache = <<>> THEN cache \o FindRecent(docs) ELSE cache

\* history = [] ... history = bot.conversations[user_id][-5:]
\* The list the handler goes on with, and the cache after the block.
HydratedCache(cache, docs) ==
    IF cache = <<>> THEN Reverse(cache \o FindRecent(docs)) ELSE cache

HistoryRead(cache) == Tail_n(cache, HISTORY_READ)

\* channel.typing() is entered.  Creator questions go to the canned reply;
\* everything else detects the language, loads the history and posts the
\* prompt to the completion API.  findOk: the store answers the query.
AskTyping(i, ok, findOk) ==
    /\ inv[i].pc = "typing"
    /\ LET u == inv[i].user
           queries == conversations_collection /\ conversations[u] = <<>>
           cache == IF conversations_collection
                    THEN HydratedCache(conversations[u], convDocs[u])
                    ELSE conversations[u]
           history == IF conversations_collection THEN HistoryRead(cache) ELSE <<>>
       IN  IF ~ok
           THEN /\ inv' = Goto(i, "done")
                /\ UNCHANGED <<conversations, finds, hist>>
           ELSE IF Normalize(inv[i].prompt) \in CreatorPhrases
           THEN /\ inv' = Goto(i, "sendCanned")
                /\ UNCHANGED <<conversations, finds, hist>>
           ELSE IF queries /\ ~findOk
           THEN /\ inv' = Goto(i, "sendErr")
                /\ finds' = [finds EXCEPT ![u] = Append(@, FALSE)]
                /\ UNCHANGED <<conversations, hist>>
           ELSE /\ conversations' = [conversations EXCEPT ![u] = cache]
                /\ finds' = [finds EXCEPT ![u] = IF queries THEN Append(@, TRUE) ELSE @]
                /\ hist' = [hist EXCEPT ![u] = Append(@, HistEntry("read", history, TRUE))]
                /\ inv' = Set(i, [inv[i] EXCEPT !.pc = "post", !.history = history])
    /\ UNCHANGED <<now, ask_rate_limit, last_message_id, conversations_collection,
                   convDocs, calls>>
    /\ UNCHANGED remVars

\* The canned reply was sent (or not): the pointer is set to its id.  The
\* message an invocation sends carries the invocation's index as its id.
AskCannedSent(i, ok) ==
    /\ inv[i].pc = "sendCanned"
    /\ IF ok
       THEN /\ inv' = Followup(i, "canned", "done")
            /\ last_message_id' = [last_message_id EXCEPT ![<<inv[i].user, inv[i].channel>>] = i]
       ELSE /\ inv' = Goto(i, "sendErr")
            /\ UNCHANGED last_message_id
    /\ UNCHANGED <<now, ask_rate_limit, conversations, conversations_collection,
                   convDocs, calls, finds, hist>>
    /\ UNCHANGED remVars

\* the handler without the test of the status: only an error member stops it
AskPosted_NoStatusCheck(i, outcome) ==
    /\ inv[i].pc = "post"
    /\ LET target_message_id == last_message_id[<<inv[i].user, inv[i].channel>>]
           called == [inv[i] EXCEPT !.api = outcome]
       IN  inv' = CASE outcome \in {"ok", "status"} ->
                        Set(i, [called EXCEPT !.target = target_message_id,
                                   !.pc = IF target_message_id # None THEN "fetch" ELSE "sendAns"])
                    [] outcome = "error" -> Set(i, [called EXCEPT !.pc = "sendApiErr"])
                    [] OTHER -> Set(i, [called EXCEPT !.pc = "sendErr"])
    /\ UNCHANGED <<now, ask_rate_limit, conversations, last_message_id,
                   conversations_collection, convDocs, calls, finds, hist>>
    /\ UNCHANGED remVars

\* The completion API answered.
\*   "ok"      status 200 and a body with choices: the reply target is read
\*   "status"  status other than 200
\*   "error"   status 200 and a body with an error member
\*   "raise"   the request, the decoding or data["choices"] raised
AskPosted(i, outcome) ==
    /\ inv[i].pc = "post"
    /\ LET target_message_id == last_message_id[<<inv[i].user, inv[i].channel>>]
           called == [inv[i] EXCEPT !.api = outcome]
       IN  inv' = CASE outcome = "ok" ->
                        Set(i, [called EXCEPT !.target = target_message_id,
                                   !.pc = IF target_message_id # None THEN "fetch" ELSE "sendAns"])
                    [] outcome \in {"status", "error"} -> Set(i, [called EXCEPT !.pc = "sendApiErr"])
                    [] OTHER -> Set(i, [called EXCEPT !.pc = "sendErr"])
    /\ UNCHANGED <<now, ask_rate_limit, conversations, last_message_id,
                   conversations_collection, convDocs, calls, finds, hist>>
    /\ UNCHANGED remVars

\* The formatted API error was sent, and the handler returns; a failing send
\* raises inside the try block.
AskApiErrSent(i, ok) ==
    /\ inv[i].pc = "sendApiErr"
    /\ inv' = IF ok THEN Followup(i, "apierr", "done") ELSE Goto(i, "sendErr")
    /\ UNCHANGED <<now, ask_rate_limit, conversations, last_message_id,
                   conversations_collection, convDocs, calls, finds, hist>>
    /\ UNCHANGED remVars

\* the handler without the except discord.NotFound branch
AskFetched_NoFallback(i, outcome) ==
    /\ inv[i].pc = "fetch"
    /\ inv' = Set(i, [inv[i] EXCEPT !.fetched = outcome,
                                     !.pc = IF outcome = "ok" THEN "reply" ELSE "sendErr"])
    /\ UNCHANGED <<now, ask_rate_limit, conversations, last_message_id,
                   conversations_collection, convDocs, calls, finds, hist>>
    /\ UNCHANGED remVars

\* channel.fetch_message(target_message_id) returned.
AskFetched(i, outcome) ==
    /\ inv[i].pc = "fetch"
    /\ inv' = Set(i, [inv[i] EXCEPT !.fetched = outcome,
                                     !.pc = CASE outcome = "ok" -> "reply"
                                              [] outcome = "notfound" -> "sendAns"
                                              [] OTHER -> "sendErr"])
    /\ UNCHANGED <<now, ask_rate_limit, conversations, last_message_id,
                   conversations_collection, convDocs, calls, finds, hist>>
    /\ UNCHANGED remVars

\* the handler that drops its turn when the user's history was cleared while
\* it waited for the completion
AfterSend_DropCleared(i, sent, insOk) ==
    LET u == inv[i].user
        turn == Turn(inv[i].prompt, <<"new", i>>)
        keeps == inv[i].cleared = 0
        stored == keeps /\ conversations_collection /\ insOk
        raised == keeps /\ conversations_collection /\ ~insOk
    IN  /\ last_message_id' = [last_message_id EXCEPT ![<<u, inv[i].channel>>] = i]
        /\ conversations' = [conversations EXCEPT ![u] = IF keeps THEN Append(@, turn) ELSE @]
        /\ convDocs' = [convDocs EXCEPT ![u] = IF stored THEN Append(@, turn) ELSE @]
        /\ hist' = [hist EXCEPT ![u] = IF keeps
                                       THEN Append(@, HistEntry("append", <<turn>>, ~raised))
                                       ELSE @]
        /\ inv' = Set(i, [sent EXCEPT !.pc = IF raised THEN "sendErr" ELSE "done"])

\* the handler without the update of the pointer
AfterSend_NoPointer(i, sent, insOk) ==
    LET u == inv[i].user
        turn == Turn(inv[i].prompt, <<"new", i>>)
        stored == conversations_collection /\ insOk
        raised == conversations_collection /\ ~insOk
    IN  /\ UNCHANGED last_message_id
        /\ conversations' = [conversations EXCEPT ![u] = Append(@, turn)]
        /\ convDocs' = [convDocs EXCEPT ![u] = IF stored THEN Append(@, turn) ELSE @]
        /\ hist' = [hist EXCEPT ![u] = Append(@, HistEntry("append", <<turn>>, ~raised))]
        /\ inv' = Set(i, [sent EXCEPT !.pc = IF raised THEN "sendErr" ELSE "done"])

\* the handler that writes back the history it read, with the new turn added
AfterSend_FromSnapshot(i, sent, insOk) ==
    LET u == inv[i].user
        turn == Turn(inv[i].prompt, <<"new", i>>)
        stored == conversations_collection /\ insOk
        raised == conversations_collection /\ ~insOk
    IN  /\ last_message_id' = [last_message_id EXCEPT ![<<u, inv[i].channel>>] = i]
        /\ conversations' = [conversations EXCEPT ![u] = Append(inv[i].history, turn)]
        /\ convDocs' = [convDocs EXCEPT ![u] = IF stored THEN Append(@, turn) ELSE @]
        /\ hist' = [hist EXCEPT ![u] = Append(@, HistEntry("append", <<turn>>, ~raised))]
        /\ inv' = Set(i, [sent EXCEPT !.pc = IF raised THEN "sendErr" ELSE "done"])

\* After the answer went out: the pointer, the cache, the store, in that
\* order, with no await in between.  insOk: insert_one succeeds.
AfterSend(i, sent, insOk) ==
    LET u == inv[i].user
        turn == Turn(inv[i].prompt, <<"new", i>>)
        stored == conversations_collection /\ insOk
        raised == conversations_collection /\ ~insOk
    IN  /\ last_message_id' = [last_message_id EXCEPT ![<<u, inv[i].channel>>] = i]
        /\ conversations' = [conversations EXCEPT ![u] = Append(@, turn)]
        /\ convDocs' = [convDocs EXCEPT ![u] = IF stored THEN Append(@, turn) ELSE @]
        /\ hist' = [hist EXCEPT ![u] = Append(@, HistEntry("append", <<turn>>, ~raised))]
        /\ inv' = Set(i, [sent EXCEPT !.pc = IF raised THEN "sendErr" ELSE "done"])

\* msg.reply(embed=embed) returned.
AskReplied(i, outcome, insOk) ==
    /\ inv[i].pc = "reply"
    /\ CASE outcome = "ok" ->
                AfterSend(i, [inv[i] EXCEPT !.replied = TRUE], insOk)
         [] outcome = "notfound" ->
                /\ inv' = Goto(i, "sendAns")
                /\ UNCHANGED <<last_message_id, conversations, convDocs, hist>>
         [] OTHER ->
                /\ inv' = Goto(i, "sendErr")
                /\ UNCHANGED <<last_message_id, conversations, convDocs, hist>>
    /\ UNCHANGED <<now, ask_rate_limit, conversations_collection, calls, finds>>
    /\ UNCHANGED remVars

\* followup.send(embed=embed) of the answer returned.
AskAnswerSent(i, ok, insOk) ==
    /\ inv[i].pc = "sendAns"
    /\ IF ok
       THEN AfterSend(i, [inv[i] EXCEPT !.followups = Append(@, "answer")], insOk)
       ELSE /\ inv' = Goto(i, "sendErr")
            /\ UNCHANGED <<last_message_id, conversations, convDocs, hist>>
    /\ UNCHANGED <<now, ask_rate_limit, conversations_collection, calls, finds>>
    /\ UNCHANGED remVars

\* except Exception: followup.send of the generic error returned.
AskErrSent(i, ok) ==
    /\ inv[i].pc = "sendErr"
    /\ inv' = IF ok THEN Followup(i, "error", "done") ELSE Goto(i, "done")
    /\ UNCHANGED <<now, ask_rate_limit, conversations, last_message_id,
                   conversations_collection, convDocs, calls, finds, hist>>
    /\ UNCHANGED remVars

\* ----------------------------------------------------------- /clearhistory
\* delOk: delete_many succeeds.  When it raises, the handler ends there and
\* the confirmation is never sent.
Clears == LET n[S \in SUBSET Users] ==
                  IF S = {} THEN 0
                  ELSE LET u == CHOOSE x \in S : TRUE
                       IN  Len(SelectSeq(hist[u], LAMBDA e : e.op = "clear")) + n[S \ {u}]
          IN  n[Users]

\* the handler that empties the whole cache, bot.conversations.clear()
ClearHistory_Everyone(u, delOk) ==
    /\ Clears < MaxClears
    /\ conversations' = [x \in Users |-> <<>>]
    /\ convDocs' = [convDocs EXCEPT ![u] = IF conversations_collection /\ delOk THEN <<>> ELSE @]
    /\ hist' = [hist EXCEPT ![u] = Append(@,
                    HistEntry("clear", <<>>, ~conversations_collection \/ delOk))]
    /\ inv' = [i \in DOMAIN inv |->
                  IF inv[i].user = u /\ inv[i].pc = "post"
                  THEN [inv[i] EXCEPT !.cleared = Len(hist[u]) + 1] ELSE inv[i]]
    /\ UNCHANGED <<now, ask_rate_limit, last_message_id, conversations_collection,
                   calls, finds>>
    /\ UNCHANGED remVars

ClearHistory(u, delOk) ==
    /\ Clears < MaxClears
    /\ conversations' = [conversations EXCEPT ![u] = <<>>]
    /\ convDocs' = [convDocs EXCEPT ![u] = IF conversations_collection /\ delOk THEN <<>> ELSE @]
    /\ hist' = [hist EXCEPT ![u] = Append(@,
                    HistEntry("clear", <<>>, ~conversations_collection \/ delOk))]
    /\ inv' = [i \in DOMAIN inv |->
                  IF inv[i].user = u /\ inv[i].pc = "post"
                  THEN [inv[i] EXCEPT !.cleared = Len(hist[u]) + 1] ELSE inv[i]]
    /\ UNCHANGED <<now, ask_rate_limit, last_message_id, conversations_collection,
                   calls, finds>>
    /\ UNCHANGED remVars

\* -------------------------------------------------------------- reminders
reminders_collection == conversations_collection   \* set, or set to None, together

Reminder(id, u, c, due) ==
    [id |-> id, user_id |-> u, guild_id |-> "g1", channel_id |-> c,
     note |-> "note", reminder_time |-> due]

\* ---- datetimes.  A datetime is its wall-clock reading in seconds and its
\* UTC offset; a naive datetime carries no zone.
UtcNow(t) == [wall |-> t, aware |-> FALSE, offset |-> 0]      \* datetime.utcnow()
NowPH(t) == [wall |-> t + PH_OFFSET, aware |-> TRUE, offset |-> PH_OFFSET]
                                                              \* datetime.now(PH_TIMEZONE)
PlusSeconds(dt, n) == [dt EXCEPT !.wall = @ + n]              \* dt + timedelta

\* the encoder drops the zone as if every reading were UTC
ToBson_IgnoreZone(dt) == dt.wall

\* What the store keeps and compares: the instant.  The driver takes a naive
\* datetime to be UTC and converts an aware one to UTC.
ToBson(dt) == IF dt.aware THEN dt.wall - dt.offset ELSE dt.wall

\* the confirmation a /remindme call sends
Ack(u, c, due) == [user_id |-> u, guild_id |-> "g1", channel_id |-> c, reminder_time |-> due]

\* /remindme, the id-th call that stored or confirmed something.  insOk:
\* insert_one succeeds; when it raises the handler ends there and no
\* confirmation is sent.  With minutes <= 0 only the complaint is sent.
RemindMe(id, u, c, minutes, insOk) ==
    /\ \A r \in reminders : r.id # id
    /\ born[id] = <<>> /\ acks[id] = <<>>
    \* ids are handed out in order
    /\ \A j \in DOMAIN born : j < id => (born[j] # <<>> \/ acks[j] # <<>>)
    /\ LET written == PlusSeconds(UtcNow(now), minutes * 60)
           reminder_time == ToBson(written)
           inserts == minutes > 0 /\ reminders_collection /\ insOk
           confirms == minutes > 0 /\ (reminders_collection => insOk)
       IN  /\ reminders' = IF inserts
                           THEN reminders \cup {Reminder(id, u, c, reminder_time)}
                           ELSE reminders
           /\ born' = IF inserts THEN [born EXCEPT ![id] = <<now, reminder_time, written>>]
                     ELSE born
           /\ acks' = IF confirms THEN [acks EXCEPT ![id] = <<Ack(u, c, reminder_time)>>]
                      ELSE acks
    /\ UNCHANGED <<now, conversations_collection, askVars, ready, tick, attempts,
                   unresolvable>>

\* on_ready: wait_until_ready() returns
BotReady ==
    /\ ~ready
    /\ ready' = TRUE
    /\ UNCHANGED <<now, conversations_collection, askVars, reminders, tick, attempts,
                   born, acks, unresolvable>>

\* A user account, a guild or a channel is deleted (or the bot leaves the
\* guild): from now on the platform does not resolve it.
Vanish(x) ==
    /\ x \notin unresolvable
    /\ unresolvable' = unresolvable \cup {x}
    /\ UNCHANGED <<now, conversations_collection, askVars, ready, reminders, tick,
                   attempts, born, acks>>

Resolves(r) ==
    /\ r.user_id \notin unresolvable
    /\ r.guild_id \notin unresolvable
    /\ r.channel_id \notin unresolvable

\* the loop without its before_loop hook
LoopRunning_Ungated == reminders_collection

\* the loop was started at import time and its body runs every TICK seconds
\* once the bot is ready
LoopRunning == reminders_collection /\ ready
TickDue == ~tick.ran \/ now >= tick.last + TICK

\* the documents a query at time t returns, in insertion order
RECURSIVE InOrder(_)
InOrder(S) ==
    IF S = {} THEN <<>>
    ELSE LET r == CHOOSE x \in S : \A y \in S : x.id <= y.id
         IN  <<r>> \o InOrder(S \ {r})

\* the query that leaves out the reminders that were delivered once
Due_Unsent(t) ==
    {r \in reminders : /\ r.reminder_time <= ToBson(NowPH(t))
                       /\ \A k \in 1..Len(attempts[r.id]) : attempts[r.id][k].send # "ok"}

\* find({"reminder_time": {"$lte": now}}) with now = datetime.now(PH_TIMEZONE)
Due(t) == {r \in reminders : r.reminder_time <= ToBson(NowPH(t))}

\* the tick that deletes the due reminders as soon as it has queried them
TickBegin_DeleteFirst(findOk) ==
    /\ LoopRunning /\ tick.pc = "idle" /\ TickDue
    /\ LET expired == IF findOk THEN InOrder(Due(now)) ELSE <<>>
       IN  /\ tick' = [pc |-> IF expired = <<>> THEN "idle" ELSE "run",
                       queue |-> expired, ran |-> TRUE, last |-> now,
                       answered |-> findOk, skipped |-> {}, aborted |-> FALSE]
           /\ reminders' = IF findOk THEN reminders \ Due(now) ELSE reminders
    /\ UNCHANGED <<now, conversations_collection, askVars, ready, attempts,
                   born, acks, unresolvable>>

\* A tick begins: the due reminders are queried.  findOk: the query answers;
\* when it raises, the outer except ends the tick.
TickBegin(findOk) ==
    /\ LoopRunning /\ tick.pc = "idle" /\ TickDue
    /\ LET expired == IF findOk THEN InOrder(Due(now)) ELSE <<>>
       IN  tick' = [pc |-> IF expired = <<>> THEN "idle" ELSE "run",
                    queue |-> expired, ran |-> TRUE, last |-> now,
                    answered |-> findOk, skipped |-> {}, aborted |-> FALSE]
    /\ UNCHANGED <<now, conversations_collection, askVars, ready, reminders, attempts,
                   born, acks, unresolvable>>

\* the loop body whose delete_one removes nothing
TickStep_NoDelete(userOk, guildOk, chanOk, send, delOk) ==
    /\ tick.pc = "run"
    /\ LET reminder == Head(tick.queue)
           rest == Tail(tick.queue)
           sends == userOk /\ guildOk /\ chanOk
           deletes == sends /\ send # "error"
           raised == ~userOk \/ (sends /\ send = "error") \/ (deletes /\ ~delOk)
           left == IF raised THEN <<>> ELSE rest
       IN  /\ userOk => reminder.user_id \notin unresolvable
           /\ guildOk => reminder.guild_id \notin unresolvable
           /\ chanOk => reminder.channel_id \notin unresolvable
           /\ attempts' = IF sends
                          THEN [attempts EXCEPT ![reminder.id] = Append(@,
                                    [send |-> send, at |-> tick.last,
                                     del |-> IF ~deletes THEN "skipped"
                                             ELSE IF delOk THEN "ok" ELSE "raised"])]
                          ELSE attempts
           /\ reminders' = reminders
           /\ tick' = [tick EXCEPT !.queue = left,
                                   !.pc = IF left = <<>> THEN "idle" ELSE "run",
                                   !.skipped = IF sends THEN @
                                               ELSE @ \cup {reminder.id},
                                   !.aborted = raised]
    /\ UNCHANGED <<now, conversations_collection, askVars, ready, born, acks, unresolvable>>

\* the loop body that deletes a reminder whose guild or channel is gone
TickStep_Retire(userOk, guildOk, chanOk, send, delOk) ==
    /\ tick.pc = "run"
    /\ LET reminder == Head(tick.queue)
           rest == Tail(tick.queue)
           sends == userOk /\ guildOk /\ chanOk
           deletes == sends /\ send # "error"
           raised == ~userOk \/ (sends /\ send = "error") \/ (deletes /\ ~delOk)
           left == IF raised THEN <<>> ELSE rest
       IN  /\ userOk => reminder.user_id \notin unresolvable
           /\ guildOk => reminder.guild_id \notin unresolvable
           /\ chanOk => reminder.channel_id \notin unresolvable
           /\ attempts' = IF sends
                          THEN [attempts EXCEPT ![reminder.id] = Append(@,
                                    [send |-> send, at |-> tick.last,
                                     del |-> IF ~deletes THEN "skipped"
                                             ELSE IF delOk THEN "ok" ELSE "raised"])]
                          ELSE attempts
           /\ reminders' = IF (deletes /\ delOk) \/ (userOk /\ ~sends)
                           THEN {r \in reminders : r.id # reminder.id}
                           ELSE reminders
           /\ tick' = [tick EXCEPT !.queue = left,
                                   !.pc = IF left = <<>> THEN "idle" ELSE "run",
                                   !.skipped = IF sends THEN @
                                               ELSE @ \cup {reminder.id},
                                   !.aborted = raised]
    /\ UNCHANGED <<now, conversations_collection, askVars, ready, born, acks, unresolvable>>

\* One pass of the for loop over the next reminder of the tick.
\*   userOk   the user is cached, or fetch_user finds it (else it raises)
\*   guildOk  bot.get_guild finds the guild;  chanOk  guild.get_channel finds it
\*   send     "ok", "forbidden" (discord.Forbidden) or "error" (anything else)
\*   delOk    delete_one succeeds
\* An exception other than Forbidden ends the tick in the outer except.
TickStep(userOk, guildOk, chanOk, send, delOk) ==
    /\ tick.pc = "run"
    /\ LET reminder == Head(tick.queue)
           rest == Tail(tick.queue)
           sends == userOk /\ guildOk /\ chanOk
           deletes == sends /\ send # "error"
           raised == ~userOk \/ (sends /\ send = "error") \/ (deletes /\ ~delOk)
           left == IF raised THEN <<>> ELSE rest
       IN  /\ userOk => reminder.user_id \notin unresolvable
           /\ guildOk => reminder.guild_id \notin unresolvable
           /\ chanOk => reminder.channel_id \notin unresolvable
           /\ attempts' = IF sends
                          THEN [attempts EXCEPT ![reminder.id] = Append(@,
                                    [send |-> send, at |-> tick.last,
                                     del |-> IF ~deletes THEN "skipped"
                                             ELSE IF delOk THEN "ok" ELSE "raised"])]
                          ELSE attempts
           /\ reminders' = IF deletes /\ delOk
                           THEN {r \in reminders : r.id # reminder.id}
                           ELSE reminders
           /\ tick' = [tick EXCEPT !.queue = left,
                                   !.pc = IF left = <<>> THEN "idle" ELSE "run",
                                   !.skipped = IF sends THEN @
                                               ELSE @ \cup {reminder.id},
                                   !.aborted = raised]
    /\ UNCHANGED <<now, conversations_collection, askVars, ready, born, acks, unresolvable>>

\* ---- the store's expiry of reminder documents (TTL index on reminder_time)
\* the index never expires a document
Expired_Never(r, t) == FALSE

\* a document is expired once expireAfterSeconds have passed since the value
\* of the indexed field
Expired(r, t) == t - r.reminder_time >= TTL_REMINDERS

\* the store's background task removes the expired documents
PurgeReminders ==
    /\ \E r \in reminders : Expired(r, now)
    /\ reminders' = {r \in reminders : ~Expired(r, now)}
    /\ UNCHANGED <<now, conversations_collection, askVars, ready, tick, attempts,
                   born, acks, unresolvable>>

\* the clock moves by a long step
AdvanceDays(d) ==
    /\ now + d <= MaxDays * d
    /\ now' = now + d
    /\ UNCHANGED <<conversations_collection, askVars, remVars>>

\* ------------------------------------------------------------ specification
Serial == \A j \in DOMAIN inv : ~InFlight(j)

\* The conversation store under every outcome of the store and of the
\* completion API, with the platform answering every call (a fetch may
\* still find the message gone).  Invocations run one after the other; with
\* MaxInv of them nobody reaches the rate limit.
Next ==
    \/ \E i \in DOMAIN inv, u \in Users, c \in Channels, p \in Prompts :
            Serial /\ AskStart(i, u, c, p)
    \/ \E i \in DOMAIN inv : AskDeferred(i, TRUE)
    \/ \E i \in DOMAIN inv, findOk \in BOOLEAN : AskTyping(i, TRUE, findOk)
    \/ \E i \in DOMAIN inv : AskCannedSent(i, TRUE)
    \/ \E i \in DOMAIN inv, o \in {"ok", "status", "error", "raise"} : AskPosted(i, o)
    \/ \E i \in DOMAIN inv : AskApiErrSent(i, TRUE)
    \/ \E i \in DOMAIN inv, o \in {"ok", "notfound"} : AskFetched(i, o)
    \/ \E i \in DOMAIN inv, o \in {"ok", "notfound"}, insOk \in BOOLEAN :
            AskReplied(i, o, insOk)
    \/ \E i \in DOMAIN inv, insOk \in BOOLEAN : AskAnswerSent(i, TRUE, insOk)
    \/ \E i \in DOMAIN inv : AskErrSent(i, TRUE)
    \/ \E u \in Users, delOk \in BOOLEAN : Serial /\ ClearHistory(u, delOk)

Spec == Init /\ [][Next]_vars

\* The rate limiter under load: up to MaxCalls invocations, one after the
\* other, of the creator question, with the platform answering every call,
\* and the clock moving between them.
InitRate == InitWith(MaxCalls, {0})

NextRate ==
    \/ \E d \in Deltas : Serial /\ AdvanceTime(d)
    \/ \E i \in DOMAIN inv, u \in Users, c \in Channels :
            Serial /\ AskStart(i, u, c, "who made you")
    \/ \E i \in DOMAIN inv : AskDeferred(i, TRUE)
    \/ \E i \in DOMAIN inv : AskLimitSent(i, TRUE)
    \/ \E i \in DOMAIN inv : AskTyping(i, TRUE, TRUE)
    \/ \E i \in DOMAIN inv : AskCannedSent(i, TRUE)

SpecRate == InitRate /\ [][NextRate]_vars

\* /ask with an unreliable platform: one user, one invocation after the
\* other, and every awaited call may fail but the acknowledgement (defer) and
\* the send of the generic error.
InitAsk == InitWith(MaxInv, {0, 2})

NextAsk ==
    \/ \E i \in DOMAIN inv, c \in Channels, p \in Prompts : Serial /\ AskStart(i, "u1", c, p)
    \/ \E i \in DOMAIN inv : AskDeferred(i, TRUE)
    \/ \E i \in DOMAIN inv, ok \in BOOLEAN, findOk \in BOOLEAN : AskTyping(i, ok, findOk)
    \/ \E i \in DOMAIN inv, ok \in BOOLEAN : AskCannedSent(i, ok)
    \/ \E i \in DOMAIN inv, o \in {"ok", "status", "error", "raise"} : AskPosted(i, o)
    \/ \E i \in DOMAIN inv, ok \in BOOLEAN : AskApiErrSent(i, ok)
    \/ \E i \in DOMAIN inv, o \in {"ok", "notfound", "raise"} : AskFetched(i, o)
    \/ \E i \in DOMAIN inv, o \in {"ok", "notfound", "raise"}, insOk \in BOOLEAN :
            AskReplied(i, o, insOk)
    \/ \E i \in DOMAIN inv, ok \in BOOLEAN, insOk \in BOOLEAN : AskAnswerSent(i, ok, insOk)
    \/ \E i \in DOMAIN inv : AskErrSent(i, TRUE)

SpecAsk == InitAsk /\ [][NextAsk]_vars

\* Overlapping handlers: invocations of both users start while others are
\* suspended at an await, and /clearhistory runs in between; every awaited
\* call succeeds.
InitConc == InitWith(MaxInv, {2})

NextConc ==
    \/ \E i \in DOMAIN inv, u \in Users, c \in Channels : AskStart(i, u, c, "hello")
    \/ \E i \in DOMAIN inv : AskDeferred(i, TRUE)
    \/ \E i \in DOMAIN inv : AskTyping(i, TRUE, TRUE)
    \/ \E i \in DOMAIN inv : AskPosted(i, "ok")
    \/ \E i \in DOMAIN inv : AskFetched(i, "ok")
    \/ \E i \in DOMAIN inv : AskReplied(i, "ok", TRUE)
    \/ \E i \in DOMAIN inv : AskAnswerSent(i, TRUE, TRUE)
    \/ \E u \in Users : ClearHistory(u, TRUE)

SpecConc == InitConc /\ [][NextConc]_vars

\* The reminder queue: reminders are set, the clock moves a tick interval at
\* a time, and every tick that falls due runs before the clock moves on.
NextRem ==
    \/ BotReady
    \/ \E x \in Guilds \cup Channels : Vanish(x)
    \/ \E id \in DOMAIN attempts, u \in Users, c \in Channels, minutes \in {0, 1, 2},
          insOk \in BOOLEAN : RemindMe(id, u, c, minutes, insOk)
    \/ (tick.pc = "idle" /\ ~(LoopRunning /\ TickDue)) /\ AdvanceTime(TICK)
    \/ \E findOk \in BOOLEAN : TickBegin(findOk)
    \/ \E userOk \in BOOLEAN, guildOk \in BOOLEAN, chanOk \in BOOLEAN,
          send \in {"ok", "forbidden", "error"}, delOk \in BOOLEAN :
            TickStep(userOk, guildOk, chanOk, send, delOk)

InitRem == InitWith(MaxInv, {0})

SpecRem == InitRem /\ [][NextRem]_vars

\* Reminders over a month: they are set, the bot becomes ready and channels
\* are deleted at the first instant, the clock moves
\* by days, the store purges before the clock moves on, and a tick runs at
\* each instant the loop is awake.
NextTTL ==
    \/ now = 0 /\ BotReady
    \/ now = 0 /\ \E c \in Channels : Vanish(c)
    \/ /\ now = 0
       /\ \E id \in DOMAIN attempts, u \in {"u1"}, c \in Channels, minutes \in {1440, 2880} :
             RemindMe(id, u, c, minutes, TRUE)
    \/ PurgeReminders
    \/ /\ tick.pc = "idle" /\ ~(LoopRunning /\ TickDue)
       /\ \A r \in reminders : ~Expired(r, now)
       /\ \E d \in DaySteps : AdvanceDays(d)
    \/ TickBegin(TRUE)
    \/ tick.pc = "run" /\ TickStep(TRUE, TRUE, Resolves(Head(tick.queue)), "ok", TRUE)

SpecTTL == InitRem /\ [][NextTTL]_vars

\* ===================================================== the rate limiter
\* calls[u][k] is the k-th admission check of user u: its time and verdict.
Checked(u) == 1..Len(calls[u])
AdmittedBefore(u, k) == {j \in 1..(k - 1) : calls[u][j].ok}

\* the five most recent admitted calls before the k-th check
LastAdmitted(u, k) ==
    {j \in AdmittedBefore(u, k) :
        Cardinality({m \in AdmittedBefore(u, k) : m > j}) < LIMIT}

Earliest(u, S) == CHOOSE j \in S : \A m \in S : j <= m
Latest(u, S) == CHOOSE j \in S : \A m \in S : m <= j

\* C1: after 5 admitted calls of one user within 60 seconds, the first call
\* made more than 60 seconds after the earliest of them is admitted, whether
\* or not rejected calls came in between.
C1_AdmissionResumes ==
    \A u \in Users : \A k \in Checked(u) :
        LET S == LastAdmitted(u, k)
        IN  ( /\ Cardinality(S) = LIMIT
              /\ calls[u][Latest(u, S)].t - calls[u][Earliest(u, S)].t <= WINDOW
              /\ calls[u][k].t - calls[u][Earliest(u, S)].t > WINDOW
              /\ \A j \in Checked(u) :
                    (Latest(u, S) < j /\ j < k)
                        => calls[u][j].t - calls[u][Earliest(u, S)].t <= WINDOW )
            => calls[u][k].ok

\* C2: a check rejects exactly when, of the user's calls up to and including
\* this one, more than 5 lie within the 60 seconds before it (the window
\* after appending the call and discarding what is older than 60 seconds).
C2_DecisionOnPrunedWindow ==
    \A u \in Users : \A k \in Checked(u) :
        calls[u][k].ok <=>
            ~(Cardinality({j \in 1..k : calls[u][k].t - calls[u][j].t <= WINDOW}) > LIMIT)

\* C3: a call made when 5 admitted calls of the same user lie within the
\* trailing 60 seconds is rejected.
FiveAdmittedInWindow(u, k) ==
    Cardinality({j \in AdmittedBefore(u, k) : calls[u][k].t - calls[u][j].t <= WINDOW}) >= LIMIT

C3_SixthRejected ==
    \A u \in Users : \A k \in Checked(u) :
        FiveAdmittedInWindow(u, k) => ~calls[u][k].ok

\* the sixth call arrives exactly 60 seconds after the first of the five,
\* is rejected, and its throttling notice is the only thing the caller gets
C3_Witness ==
    \E i \in DOMAIN inv :
        LET u == inv[i].user
            k == Len(calls[u])
        IN  /\ inv[i].pc = "done" /\ inv[i].admitted = "no"
            /\ inv[i].followups = <<"limit">>
            /\ k > LIMIT
            /\ FiveAdmittedInWindow(u, k)
            /\ \E j \in AdmittedBefore(u, k) : calls[u][k].t - calls[u][j].t = WINDOW

\* ================================================ the conversation store
\* hist[u] is what happened to u's history, in order: "read" entries carry
\* the history a prompt was built from, "append" entries the turn appended
\* (ok: nothing raised), "clear" entries whether the delete went through.
Entries(u) == 1..Len(hist[u])
IsRead(u, k) == hist[u][k].op = "read"
IsAppend(u, k) == hist[u][k].op = "append"
IsClear(u, k) == hist[u][k].op = "clear"

\* C4: the in-memory history list of every user holds at most 5 turns.
C4_CacheBound ==
    \A u \in Users : Len(conversations[u]) <= 5

\* C5: a history read that finds the user's cache empty returns the min(5,n)
\* most recent of the n stored turns, oldest first.
MostRecent(docs) ==
    LET n == Len(docs)
        m == IF n < 5 THEN n ELSE 5
    IN  [k \in 1..m |-> docs[n - m + k]]

ReadsNow(i) == inv[i].pc = "typing" /\ inv'[i].pc = "post"

C5_HydrationResult ==
    [][\A i \in DOMAIN inv :
          (ReadsNow(i) /\ conversations_collection /\ conversations[inv[i].user] = <<>>)
              => inv'[i].history = MostRecent(convDocs[inv[i].user])]_vars

\* the first read of u1 with MaxPre turns stored took the last five of them
C5_Witness ==
    \E i \in DOMAIN inv :
        /\ inv[i].pc = "post" /\ inv[i].user = "u1"
        /\ Len(convDocs["u1"]) = MaxPre /\ MaxPre > 5
        /\ hist["u1"] = <<HistEntry("read", inv[i].history, TRUE)>>
        /\ inv[i].history = [k \in 1..5 |-> OldTurn(MaxPre - 5 + k)]

\* C6: for every user the store answers at most one history query.
C6_HydrateOnce ==
    \A u \in Users : Len(SelectSeq(finds[u], LAMBDA answered : answered)) <= 1

\* C7: the read that follows a successful append of T, with no other
\* operation of that user in between, ends in T, has at most 5 turns and
\* keeps the turns before T in the order the previous read had them.
IsSuffix(s, t) == Len(s) <= Len(t) /\ s = Tail_n(t, Len(s))
Front(s) == SubSeq(s, 1, Len(s) - 1)

C7_AppendThenRead ==
    \A u \in Users : \A k \in Entries(u) :
        (k > 1 /\ IsRead(u, k) /\ IsAppend(u, k - 1) /\ hist[u][k - 1].ok)
            => LET h == hist[u][k].h
                   T == hist[u][k - 1].h[1]
               IN  /\ h # <<>> /\ Last(h) = T
                   /\ Len(h) <= 5
                   /\ (k > 2 /\ IsRead(u, k - 2)) => IsSuffix(Front(h), hist[u][k - 2].h)

\* C8: with the store unreachable at startup nothing raises in the history
\* operations, and the turn a successful /ask appended is in the history the
\* user's next prompt is built from.
InSeq(x, s) == \E k \in 1..Len(s) : s[k] = x

C8_DegradedMode ==
    ~conversations_collection =>
        \A u \in Users : \A k \in Entries(u) :
            /\ hist[u][k].ok
            /\ (k > 1 /\ IsRead(u, k) /\ IsAppend(u, k - 1))
                  => InSeq(hist[u][k - 1].h[1], hist[u][k].h)

\* C9: after a clear, every read of that user up to the next append returns
\* the empty sequence, whether or not the delete went through.
C9_ClearIsEffective ==
    \A u \in Users : \A c \in Entries(u), r \in Entries(u) :
        ( /\ c < r /\ IsClear(u, c) /\ IsRead(u, r)
          /\ \A a \in Entries(u) : (c < a /\ a < r) => ~IsAppend(u, a) )
            => hist[u][r].h = <<>>

\* ================================================== the reminder scheduler
\* C10: for a due reminder whose guild and channel resolve, a send that
\* fails for whatever reason is followed by the delete of the record in the
\* same pass, and once deleted the reminder is not attempted again.
C10_SendFailureTerminal ==
    \A id \in DOMAIN attempts : \A k \in 1..Len(attempts[id]) :
        attempts[id][k].send # "ok"
            => /\ attempts[id][k].del # "skipped"
               /\ attempts[id][k].del = "ok" => k = Len(attempts[id])

\* =========================================================== reminder loop
\* the delete of reminder id raised in the tick that began at time t
DeleteRaised(id, t) ==
    \E k \in 1..Len(attempts[id]) : attempts[id][k].at = t /\ attempts[id][k].del = "raised"

\* reminder id was sent (the send was attempted) in the tick that began at t
SentIn(id, t) == \E k \in 1..Len(attempts[id]) : attempts[id][k].at = t

\* C11: when a poll tick whose query was answered has ended, no reminder that
\* was due at the start of that tick, and whose user, guild and channel
\* resolve, is still in the store (only a failed delete of that very reminder
\* may keep it): it was sent and removed by that tick.
C11_DueHandledByTick ==
    (tick.ran /\ tick.pc = "idle" /\ tick.answered) =>
        \A r \in reminders :
            (r.reminder_time <= tick.last /\ Resolves(r) /\ r.id \notin tick.skipped)
                => DeleteRaised(r.id, tick.last)

\* ============================================================ hard expiry
Stored(id) == \E r \in reminders : r.id = id
InsertedAt(id) == born[id][1]
DueAt(id) == born[id][2]
DeletedByTick(id) == \E k \in 1..Len(attempts[id]) : attempts[id][k].del = "ok"

Ends(i) == inv[i].pc # "done" /\ inv'[i].pc = "done"

\* an upstream call of the invocation failed: it sent the API error or the
\* generic error
Failed(f) == InSeq("apierr", f.followups) \/ InSeq("error", f.followups)

\* the pointer and the store are as the invocation found them, and the cache
\* is as it found it or as loading it from the store left it
Unmutated(i) ==
    LET f == inv[i]
    IN  /\ last_message_id[<<f.user, f.channel>>] = f.pre.ptr
        /\ convDocs[f.user] = f.pre.docs
        /\ conversations[f.user] \in {f.pre.conv, HydratedCache(f.pre.conv, f.pre.docs)}

\* C13: when an invocation of /ask in which an upstream call failed ends, the
\* user's cache, the user's stored turns and the reply pointer are what they
\* were when it started.
C13_NoPartialMutation ==
    [][\A i \in DOMAIN inv : (Ends(i) /\ Failed(inv'[i])) => Unmutated(i)']_vars

\* the caller of invocation i got a message: a follow-up or a reply
Answered(f) == f.followups # <<>> \/ f.replied

\* C14: no invocation of /ask ends without a message to the caller, whichever
\* step failed.
C14_AlwaysAnswered ==
    \A i \in DOMAIN inv : inv[i].pc = "done" => Answered(inv[i])

\* the turn of invocation i
TurnOf(i) == Turn(inv[i].prompt, <<"new", i>>)

\* the place in hist of the read of invocation i
ReadIndex(i) == inv[i].pre.nhist + 1

\* C15: an invocation whose completion call answered with a non-success status
\* or an error payload sent the formatted error and nothing else, its turn is
\* neither in the cache nor in the store, and the next read of that user
\* returns what the read of this invocation returned.
C15_CompletionFailureLeavesHistory ==
    \A i \in DOMAIN inv :
        (inv[i].pc = "done" /\ inv[i].api \in {"status", "error"})
            => LET u == inv[i].user
                   k == ReadIndex(i)
               IN  /\ inv[i].followups = <<"apierr">> /\ ~inv[i].replied
                   /\ ~InSeq(TurnOf(i), conversations[u])
                   /\ ~InSeq(TurnOf(i), convDocs[u])
                   /\ hist[u][k] = HistEntry("read", inv[i].history, TRUE)
                   /\ (Len(hist[u]) > k /\ IsRead(u, k + 1))
                          => hist[u][k + 1].h = hist[u][k].h

\* the completion call of an invocation that had read a non-empty history
\* answered with a status other than 200, and the user read again
C15_Witness ==
    \E i \in DOMAIN inv :
        /\ inv[i].pc = "done" /\ inv[i].api = "status"
        /\ inv[i].followups = <<"apierr">>
        /\ inv[i].history # <<>>
        /\ Len(hist[inv[i].user]) > ReadIndex(i)
        /\ IsRead(inv[i].user, ReadIndex(i) + 1)

\* insert_one raised in invocation i
InsertRaised(i) ==
    InSeq(HistEntry("append", <<TurnOf(i)>>, FALSE), hist[inv[i].user])

Pointer(i) == last_message_id[<<inv[i].user, inv[i].channel>>]

\* C16: an invocation that found the pointer at X and whose fetch of X failed
\* with not-found ends having sent the answer as a fresh follow-up, not as a
\* reply, with the pointer at the id of that follow-up and not at X, and with
\* no error sent (unless the insert into the store raised afterwards).
C16_ReplyChainFallback ==
    [][\A i \in DOMAIN inv :
          (Ends(i) /\ inv'[i].fetched = "notfound")
              => /\ inv'[i].target # None
                 /\ InSeq("answer", inv'[i].followups) /\ ~inv'[i].replied
                 /\ Pointer(i)' = i /\ Pointer(i)' # inv'[i].target
                 /\ InSeq("error", inv'[i].followups) => InsertRaised(i)']_vars

\* the fetch of the message the pointer named failed with not-found and the
\* invocation ended with the answer as its only follow-up
C16_Witness ==
    \E i \in DOMAIN inv :
        /\ inv[i].pc = "done" /\ inv[i].fetched = "notfound"
        /\ inv[i].target # None /\ inv[i].target # i
        /\ inv[i].followups = <<"answer">>
        /\ Pointer(i) = i

\* the answer of invocation i went out, as a reply or as a follow-up
AnswerSent(f) == InSeq("answer", f.followups) \/ f.replied

\* the handler of invocation i is between the completion call and the return
\* of the send of the answer
Sending(i) == inv[i].pc \in {"fetch", "reply", "sendAns"}

\* C17: with the store reachable, an invocation whose completion call, send
\* and insert succeeded ends with the pointer at the id of the message it
\* sent, its turn last in the cache, and the store holding what it held plus
\* exactly that turn; and as long as the send has not returned, the pointer is
\* not that id and the turn is neither in the cache nor in the store.
C17_SuccessPostState ==
    [][\A i \in DOMAIN inv :
          /\ ( /\ Ends(i) /\ conversations_collection
               /\ inv'[i].api = "ok" /\ AnswerSent(inv'[i]) /\ ~InsertRaised(i)' )
                => /\ Pointer(i)' = i
                   /\ conversations'[inv'[i].user] # <<>>
                   /\ Last(conversations'[inv'[i].user]) = TurnOf(i)'
                   /\ convDocs'[inv'[i].user] = Append(inv'[i].pre.docs, TurnOf(i)')
          /\ Sending(i)'
                => /\ Pointer(i)' # i
                   /\ ~InSeq(TurnOf(i)', conversations'[inv'[i].user])
                   /\ ~InSeq(TurnOf(i)', convDocs'[inv'[i].user])]_vars

\* a successful /ask of a user with stored turns, sent as a follow-up
C17_Witness ==
    \E i \in DOMAIN inv :
        /\ inv[i].pc = "done" /\ conversations_collection
        /\ inv[i].api = "ok" /\ inv[i].followups = <<"answer">>
        /\ inv[i].pre.docs # <<>>
        /\ Pointer(i) = i
        /\ Last(conversations[inv[i].user]) = TurnOf(i)
        /\ convDocs[inv[i].user] = Append(inv[i].pre.docs, TurnOf(i))

\* the prompts that are a creator phrase once blanks around them are removed
\* and capitals are lowered
CreatorQuestions == {"who made you", " Who Made You ", "Who created this bot"}

\* C18: an admitted invocation whose prompt is a creator question ends having
\* sent the canned reply and nothing else, with no completion call and no
\* query of the store made, the cache and the store as it found them, no
\* history operation logged, and the pointer at the id of the canned reply.
C18_CreatorShortCircuit ==
    [][\A i \in DOMAIN inv :
          (Ends(i) /\ inv'[i].prompt \in CreatorQuestions /\ inv'[i].admitted = "yes")
              => LET f == inv'[i]
                 IN  /\ f.followups = <<"canned">> /\ ~f.replied
                     /\ f.api = "none"
                     /\ conversations'[f.user] = f.pre.conv
                     /\ convDocs'[f.user] = f.pre.docs
                     /\ Len(finds'[f.user]) = f.pre.nfinds
                     /\ Len(hist'[f.user]) = f.pre.nhist
                     /\ Pointer(i)' = i]_vars

\* a user with a turn in the cache asked, with capitals and blanks, who made
\* the bot, and got the canned reply
C18_Witness ==
    \E i \in DOMAIN inv :
        /\ inv[i].pc = "done" /\ inv[i].prompt = " Who Made You "
        /\ inv[i].followups = <<"canned">>
        /\ inv[i].pre.conv # <<>> /\ conversations[inv[i].user] = inv[i].pre.conv
        /\ inv[i].pre.ptr # None /\ Pointer(i) = i

\* C19: an invocation the rate limit rejected ends having sent the throttling
\* notice and nothing else, with no completion call and no query of the store
\* made, no history operation logged, and the cache, the store and the
\* pointer as it found them.
C19_ThrottledStops ==
    [][\A i \in DOMAIN inv :
          (Ends(i) /\ inv'[i].admitted = "no")
              => LET f == inv'[i]
                 IN  /\ f.followups = <<"limit">> /\ ~f.replied
                     /\ f.api = "none"
                     /\ Len(finds'[f.user]) = f.pre.nfinds
                     /\ Len(hist'[f.user]) = f.pre.nhist
                     /\ conversations'[f.user] = f.pre.conv
                     /\ convDocs'[f.user] = f.pre.docs
                     /\ Pointer(i)' = f.pre.ptr]_vars

\* a rejected invocation of a user whose pointer was set by an earlier reply
C19_Witness ==
    \E i \in DOMAIN inv :
        /\ inv[i].pc = "done" /\ inv[i].admitted = "no"
        /\ inv[i].followups = <<"limit">>
        /\ inv[i].pre.ptr # None /\ Pointer(i) = inv[i].pre.ptr

\* ========================================================= no early delivery
\* C20: every send of a reminder was made in a tick that began at or after the
\* reminder's due time, and a reminder whose due time is still ahead is in the
\* store and was never sent.
C20_NoEarlyDelivery ==
    \A id \in DOMAIN born :
        born[id] # <<>> =>
            /\ \A k \in 1..Len(attempts[id]) : attempts[id][k].at >= DueAt(id)
            /\ DueAt(id) > now => (Stored(id) /\ attempts[id] = <<>>)

\* a tick sent and removed one reminder and left alone another that was not
\* yet due
C20_Witness ==
    /\ tick.ran /\ tick.pc = "idle"
    /\ \E a \in DOMAIN born, b \in DOMAIN born :
          /\ born[a] # <<>> /\ born[b] # <<>>
          /\ DueAt(a) <= tick.last /\ SentIn(a, tick.last) /\ ~Stored(a)
          /\ DueAt(b) > tick.last /\ Stored(b) /\ attempts[b] = <<>>

\* ======================================================== dispatch, again
Attempts(id) == 1..Len(attempts[id])
Delivered(id) == {k \in Attempts(id) : attempts[id][k].send = "ok"}
NoDeleteRaised(id) == \A k \in Attempts(id) : attempts[id][k].del # "raised"

\* C21: a reminder none of whose deletes raised was delivered (its send
\* returned without an exception) at most once, over all ticks.
C21_NoDoubleDispatch ==
    \A id \in DOMAIN attempts : NoDeleteRaised(id) => Cardinality(Delivered(id)) <= 1

\* a reminder whose first send raised was delivered by the next tick and is
\* gone
C21_Witness ==
    \E id \in DOMAIN attempts :
        /\ Len(attempts[id]) = 2 /\ NoDeleteRaised(id)
        /\ attempts[id][1].send = "error" /\ attempts[id][2].send = "ok"
        /\ ~Stored(id)
        /\ attempts[id][2].at > attempts[id][1].at
        /\ tick.ran /\ tick.pc = "idle"

\* the guild or the channel of the reminder no longer resolves
TargetGone(x) == x.guild_id \in unresolvable \/ x.channel_id \in unresolvable

\* C22: when a tick has ended without an exception, every stored reminder that
\* was due at its start and whose guild or channel does not resolve was passed
\* over by that tick with no send; and a reminder with such a target that is no longer stored,
\* without a tick having deleted it, was removed by the store's expiry.
C22_UnresolvableRetried ==
    /\ (tick.ran /\ tick.pc = "idle" /\ tick.answered /\ ~tick.aborted) =>
           \A r \in reminders :
               (TargetGone(r) /\ r.reminder_time <= tick.last)
                   => (r.id \in tick.skipped /\ ~SentIn(r.id, tick.last))
    /\ \A id \in DOMAIN born :
           (born[id] # <<>> /\ TargetGone(acks[id][1]) /\ ~Stored(id) /\ ~DeletedByTick(id))
               => now >= DueAt(id) + TTL_REMINDERS

\* a reminder whose channel is gone is still stored, never sent, and passed
\* over again by a tick later than the one at which it came due
C22_Witness ==
    /\ tick.ran /\ tick.pc = "idle"
    /\ \E r \in reminders :
          /\ TargetGone(r) /\ r.reminder_time < tick.last
          /\ r.id \in tick.skipped /\ attempts[r.id] = <<>>

\* C23: a step of the loop that removes a reminder from the store is the step
\* in which a send for that reminder, made in the running tick, returned or
\* was refused: no record goes without a send attempt before it.
C23_SendBeforeDelete ==
    [][\A id \in DOMAIN attempts :
          (Stored(id) /\ ~Stored(id)')
              => /\ Len(attempts'[id]) = Len(attempts[id]) + 1
                 /\ Last(attempts'[id]).at = tick.last
                 /\ Last(attempts'[id]).send \in {"ok", "forbidden"}
                 /\ Last(attempts'[id]).del = "ok"]_vars

\* a reminder whose send was refused (Forbidden) was deleted after it
C23_Witness ==
    \E id \in DOMAIN attempts :
        /\ born[id] # <<>> /\ ~Stored(id)
        /\ attempts[id] = <<[send |-> "forbidden", at |-> tick.last, del |-> "ok"]>>

\* C24: a reminder whose latest send was delivered and whose delete then
\* raised is still stored, and no later tick that ran through without an
\* exception and resolved its target has ended without sending it again.
C24_DeleteFailureDuplicates ==
    \A id \in DOMAIN attempts :
        (attempts[id] # <<>> /\ Last(attempts[id]).send = "ok"
                             /\ Last(attempts[id]).del = "raised")
            => /\ Stored(id)
               /\ ~( /\ tick.ran /\ tick.pc = "idle" /\ tick.answered /\ ~tick.aborted
                     /\ tick.last > Last(attempts[id]).at
                     /\ id \notin tick.skipped )

\* a reminder was delivered, its delete raised, and the next tick delivered it
\* a second time
C24_Witness ==
    \E id \in DOMAIN attempts :
        /\ Len(attempts[id]) = 2
        /\ attempts[id][1].send = "ok" /\ attempts[id][1].del = "raised"
        /\ attempts[id][2].send = "ok" /\ attempts[id][2].at = attempts[id][1].at + TICK

\* ================================================================ /remindme
\* C25: every confirmation /remindme sent stands for a record that was put in
\* the store, with the due time the confirmation was given for.
C25_ConfirmedIsStored ==
    \A id \in DOMAIN acks :
        acks[id] # <<>> => (born[id] # <<>> /\ DueAt(id) = acks[id][1].reminder_time)

\* ============================================================= startup gate
\* C26: as long as the platform connection is not ready the loop has begun no
\* tick: no query was made, no tick is in progress and nothing was sent.
C26_StartupGate ==
    ~ready => /\ ~tick.ran /\ tick.pc = "idle" /\ tick.queue = <<>>
              /\ \A id \in DOMAIN attempts : attempts[id] = <<>>

\* a stored reminder is overdue while the bot is not ready, and no tick has
\* touched it
C26_Witness ==
    /\ ~ready /\ ~tick.ran
    /\ \E r \in reminders : r.reminder_time <= now /\ attempts[r.id] = <<>>

\* ============================================================= concurrency
\* the place of the user's latest clear in hist, 0 if there is none
LastClear(u) ==
    LET C == {k \in Entries(u) : IsClear(u, k)}
    IN  IF C = {} THEN 0 ELSE CHOOSE k \in C : \A j \in C : j <= k

\* the turns appended for the user since the latest clear, in the order in
\* which the sends of their answers returned
RecentAppends(u) ==
    LET since == SubSeq(hist[u], LastClear(u) + 1, Len(hist[u]))
        apps == SelectSeq(since, LAMBDA e : e.op = "append")
    IN  [k \in 1..Len(apps) |-> apps[k].h[1]]

\* C27: however invocations of a user overlap, no append is lost: the cache
\* ends with the turns appended since the user's latest clear, each once, in
\* the order in which their sends completed, and so does the store when it is
\* reachable.
C27_NoLostAppend ==
    \A u \in Users :
        /\ IsSuffix(RecentAppends(u), conversations[u])
        /\ conversations_collection => IsSuffix(RecentAppends(u), convDocs[u])

\* two invocations of one user built their prompts from the same non-empty
\* history, the one that started later sent its answer first, and the cache
\* is that history followed by both turns in the order of the sends
C27_Witness ==
    \E i \in DOMAIN inv, j \in DOMAIN inv :
        /\ i < j /\ inv[i].user = inv[j].user
        /\ inv[i].pc = "done" /\ inv[j].pc = "done"
        /\ inv[i].history # <<>> /\ inv[i].history = inv[j].history
        /\ conversations[inv[i].user] = inv[i].history \o <<TurnOf(j), TurnOf(i)>>

\* the step is one of user B: a segment of one of B's invocations, or B's
\* /clearhistory
StepOf(B) ==
    \/ \E i \in DOMAIN inv : inv'[i] # inv[i] /\ inv'[i].user = B
    \/ (Len(hist'[B]) = Len(hist[B]) + 1 /\ Last(hist'[B]).op = "clear")

\* what the program holds for user B, and what was observed of B's operations
Of(B) ==
    <<ask_rate_limit[B], conversations[B], convDocs[B],
      [c \in Channels |-> last_message_id[<<B, c>>]],
      calls[B], finds[B], hist[B]>>

\* C28: under any interleaving, a step that is not one of user B's leaves B's
\* rate window, cache, stored turns and pointers as they are, and adds nothing
\* to the admission verdicts, queries and history reads recorded for B.
C28_CrossUserIsolation ==
    [][\A B \in Users : ~StepOf(B) => Of(B)' = Of(B)]_vars

\* u2 was answered, then u1 cleared its history and was answered, and u2's
\* cache and pointer are as u2's invocation left them
C28_Witness ==
    \E i \in DOMAIN inv, j \in DOMAIN inv :
        /\ i < j /\ inv[i].user = "u2" /\ inv[j].user = "u1"
        /\ inv[i].pc = "done" /\ inv[j].pc = "done"
        /\ LastClear("u1") > 0 /\ RecentAppends("u1") = <<TurnOf(j)>>
        /\ conversations["u2"] = <<TurnOf(i)>>
        /\ last_message_id[<<"u2", inv[i].channel>>] = i

\* =========================================================== acknowledgement
\* C29: while an invocation of /ask waits for defer() to return, it has made
\* no admission check, no query of the store, no history operation and no
\* completion call, and the user's window, cache and stored turns are as the
\* invocation found them.
C29_AcknowledgeFirst ==
    \A i \in DOMAIN inv :
        inv[i].pc = "defer" =>
            LET f == inv[i]
            IN  /\ f.admitted = "na" /\ f.api = "none" /\ f.fetched = "none"
                /\ Len(calls[f.user]) = f.pre.ncalls
                /\ Len(finds[f.user]) = f.pre.nfinds
                /\ Len(hist[f.user]) = f.pre.nhist
                /\ conversations[f.user] = f.pre.conv
                /\ convDocs[f.user] = f.pre.docs

\* the second invocation of a user waits for defer(); only the first one's
\* admission check and history read are on record
C29_Witness ==
    \E i \in DOMAIN inv :
        /\ inv[i].pc = "defer"
        /\ inv[i].pre.ncalls = 1 /\ calls[inv[i].user] # <<>>
        /\ inv[i].pre.nhist > 0

\* ============================================================== rate window
\* C30: a step that makes an admission check for user U leaves in U's window
\* only timestamps of the trailing 60 seconds, and every step that changes
\* U's window is an admission check of U.
C30_WindowInvariant ==
    [][\A u \in Users :
          /\ calls'[u] # calls[u]
                => \A k \in 1..Len(ask_rate_limit'[u]) :
                       /\ now' - ask_rate_limit'[u][k] <= WINDOW
                       /\ ask_rate_limit'[u][k] <= now'
          /\ ask_rate_limit'[u] # ask_rate_limit[u]
                => /\ Len(calls'[u]) = Len(calls[u]) + 1
                   /\ Last(calls'[u]).t = now']_vars

\* a check has just dropped an older timestamp from the user's window
C30_Witness ==
    \E u \in Users :
        /\ calls[u] # <<>> /\ Last(calls[u]).t = now
        /\ ask_rate_limit[u] # <<>>
        /\ Len(ask_rate_limit[u]) < Len(calls[u])
        /\ \A k \in 1..Len(ask_rate_limit[u]) : now - ask_rate_limit[u][k] <= WINDOW


\* ===================================================== one time zone
\* the datetime object /remindme handed to the store for reminder id
Written(id) == born[id][3]
InPH(dt) == dt.aware /\ dt.offset = PH_OFFSET
SameZone(a, b) == a.aware = b.aware /\ (a.aware => a.offset = b.offset)

\* C31: every due time written by /remindme is a UTC+8 datetime, in the same
\* zone as the `now` of the dispatch tick that compares it.
C31_SingleTimeZone ==
    \A id \in DOMAIN born :
        born[id] # <<>> =>
            /\ InPH(Written(id))
            /\ tick.ran => SameZone(Written(id), NowPH(tick.last))


\* ================================================= tick failure isolation
\* C32: when a tick whose query was answered has ended, every stored reminder
\* that was due at its start and whose user, guild and channel resolve was
\* handled by that tick (a send was made for it, or its own user fetch
\* failed): an exception raised for one reminder does not keep the tick from
\* the others.
C32_TickFailureIsolation ==
    (tick.ran /\ tick.pc = "idle" /\ tick.answered) =>
        \A r \in reminders :
            (r.reminder_time <= tick.last /\ Resolves(r))
                => (SentIn(r.id, tick.last) \/ r.id \in tick.skipped)


\* ================================================ one response per /ask
\* the messages invocation f sent to its caller: follow-ups and the threaded
\* reply
Responses(f) == Len(f.followups) + (IF f.replied THEN 1 ELSE 0)

\* C33: no invocation of /ask has sent more than one message to its caller,
\* and none has sent the answer and an error message as well.
C33_AtMostOneResponse ==
    \A i \in DOMAIN inv :
        /\ Responses(inv[i]) <= 1
        /\ ~(AnswerSent(inv[i]) /\ InSeq("error", inv[i].followups))


\* ================================================ cache against the store
\* One user's handlers overlap, /clearhistory runs in between, every awaited
\* call and every store operation succeeds; the store starts empty or with
\* more turns than a read takes.
InitCache == InitWith(MaxInv, {0, MaxPre})

NextCache ==
    \/ \E i \in DOMAIN inv, c \in Channels : AskStart(i, "u1", c, "hello")
    \/ \E i \in DOMAIN inv : AskDeferred(i, TRUE)
    \/ \E i \in DOMAIN inv : AskTyping(i, TRUE, TRUE)
    \/ \E i \in DOMAIN inv : AskPosted(i, "ok")
    \/ \E i \in DOMAIN inv, outcome \in {"ok", "notfound"} : AskFetched(i, outcome)
    \/ \E i \in DOMAIN inv : AskReplied(i, "ok", TRUE)
    \/ \E i \in DOMAIN inv : AskAnswerSent(i, TRUE, TRUE)
    \/ ClearHistory("u1", TRUE)

SpecCache == InitCache /\ [][NextCache]_vars

\* C34: with the store reachable and never failing, in every state (no
\* handler is ever suspended between its append and its insert) a non-empty
\* cache of a user ends with the user's most recent stored turns: the last
\* five of the cache are the last five of the store, in the same order, and
\* all of them when there are fewer.
C34_CacheMatchesStore ==
    conversations_collection =>
        \A u \in Users :
            conversations[u] # <<>> =>
                LET c == conversations[u]
                    d == convDocs[u]
                    n == IF Len(d) < 5 THEN Len(d) ELSE 5
                IN  /\ Len(c) >= n
                    /\ SubSeq(c, Len(c) - n + 1, Len(c)) = SubSeq(d, Len(d) - n + 1, Len(d))
                    /\ Len(c) < 5 => Len(d) = Len(c)

\* the cache was filled from a store of more than five turns, two handlers
\* that overlapped appended to it, and it now holds seven turns, the store ten
C34_Witness ==
    /\ conversations_collection
    /\ \E i \in DOMAIN inv, j \in DOMAIN inv :
          /\ i < j /\ inv[i].pc = "done" /\ inv[j].pc = "done"
          /\ inv[i].history = inv[j].history /\ Len(inv[i].history) = 5
          /\ conversations["u1"] = inv[i].history \o <<TurnOf(j), TurnOf(i)>>
          /\ Len(convDocs["u1"]) = MaxPre + 2


\* ============================================ clear against in-flight /ask
\* the place in hist of the append of invocation i, 0 if there is none
AppendIndex(i) ==
    LET u == inv[i].user
        A == {k \in Entries(u) : IsAppend(u, k) /\ hist[u][k].h = <<TurnOf(i)>>}
    IN  IF A = {} THEN 0 ELSE CHOOSE k \in A : TRUE

\* C35: an invocation whose user ran /clearhistory while it was suspended at
\* the completion call keeps the history it had read before the clear, and
\* once its completion succeeded and it has ended, its answer went out and its
\* turn was appended after that clear; unless a later clear ran, the user's
\* cache and (when reachable) store then hold that turn.
C35_ClearLosesToInFlightAsk ==
    \A i \in DOMAIN inv :
        inv[i].cleared # 0 =>
            LET u == inv[i].user
            IN  /\ IsClear(u, inv[i].cleared)
                /\ \E k \in 1..(inv[i].cleared - 1) :
                       IsRead(u, k) /\ hist[u][k].h = inv[i].history
                /\ (inv[i].pc = "done" /\ inv[i].api = "ok") =>
                       /\ AnswerSent(inv[i])
                       /\ AppendIndex(i) > inv[i].cleared
                       /\ LastClear(u) = inv[i].cleared =>
                              /\ InSeq(TurnOf(i), conversations[u])
                              /\ conversations_collection => InSeq(TurnOf(i), convDocs[u])

\* the only invocation of u1 read five stored turns, u1 cleared the history
\* while the completion call was pending, and the invocation has ended: the
\* cache and the store hold its turn and nothing else
C35_Witness ==
    /\ conversations_collection
    /\ inv[1].pc = "done" /\ inv[1].user = "u1" /\ inv[1].cleared # 0
    /\ Len(inv[1].history) = 5
    /\ \A j \in DOMAIN inv : j # 1 => inv[j].pc = "idle"
    /\ conversations["u1"] = <<TurnOf(1)>>
    /\ convDocs["u1"] = <<TurnOf(1)>>


\* ============================================== rate limit under overlap
\* A burst: an invocation of the user arrives while at most one earlier one
\* is still suspended, the awaited calls of the two return in any order, and
\* the clock moves once, by 60 or 61 seconds, at any point at which no handler
\* is past its check (the later segments do not read it).
Paired == \A j \in DOMAIN inv, k \in DOMAIN inv : (InFlight(j) /\ InFlight(k)) => j = k
Checking(i) == inv[i].pc \in {"sendLimit", "typing", "sendCanned"}

NextBurst ==
    \/ \E d \in Deltas : (now = 0 /\ \A i \in DOMAIN inv : ~Checking(i)) /\ AdvanceTime(d)
    \/ \E i \in DOMAIN inv, c \in Channels : Paired /\ AskStart(i, "u1", c, "who made you")
    \/ \E i \in DOMAIN inv : AskDeferred(i, TRUE)
    \/ \E i \in DOMAIN inv : AskLimitSent(i, TRUE)
    \/ \E i \in DOMAIN inv : AskTyping(i, TRUE, TRUE)
    \/ \E i \in DOMAIN inv : AskCannedSent(i, TRUE)

InitBurst == InitWith(MaxBurst, {0})

SpecBurst == InitBurst /\ [][NextBurst]_vars

\* the checks of user u made within 60 seconds of the user's first check,
\* the one that found the window empty
FirstSpan(u) == {k \in Checked(u) : calls[u][k].t - calls[u][1].t <= WINDOW}

\* C36: however the invocations of a user overlap, of the calls whose checks
\* fall within one 60-second span that starts from the empty window at most
\* 5 are admitted.
C36_AtMostFiveInSpan ==
    \A u \in Users :
        Cardinality({k \in FirstSpan(u) : calls[u][k].ok}) <= LIMIT

\* six invocations, all checked within 60 seconds of the first; the last two
\* overlapped and the later arrival was checked first: it was the fifth to
\* be admitted, and the earlier arrival was rejected
C36_Witness ==
    /\ \A i \in DOMAIN inv : i <= LIMIT + 1 => inv[i].pc = "done"
    /\ inv[LIMIT].pre.ncalls = LIMIT - 1 /\ inv[LIMIT + 1].pre.ncalls = LIMIT - 1
    /\ inv[LIMIT].admitted = "no" /\ inv[LIMIT + 1].admitted = "yes"
    /\ Cardinality(FirstSpan("u1")) = LIMIT + 1
    /\ calls["u1"][LIMIT + 1].t = WINDOW
    /\ Cardinality({k \in FirstSpan("u1") : calls["u1"][k].ok}) = LIMIT


\* ======================================== rejected calls and the window
\* the checks of user u, admitted or not, made within the 60 seconds before
\* the k-th one, itself included
Trailing(u, k) == {j \in 1..k : calls[u][k].t - calls[u][j].t <= WINDOW}

\* the times of the checks in S, in the order of the checks
RECURSIVE TimesOf(_, _)
TimesOf(u, S) ==
    IF S = {} THEN <<>>
    ELSE LET j == CHOOSE x \in S : \A y \in S : x <= y
         IN  <<calls[u][j].t>> \o TimesOf(u, S \ {j})

\* C37: the window of a user holds the time of every check, rejected or
\* admitted, made within 60 seconds before the user's latest one; and a check
\* with more than 5 checks of that user in its trailing 60 seconds, rejected
\* ones counted, rejects.
C37_RejectedCallsCount ==
    \A u \in Users :
        /\ calls[u] # <<>> => ask_rate_limit[u] = TimesOf(u, Trailing(u, Len(calls[u])))
        /\ \A k \in Checked(u) :
               Cardinality(Trailing(u, k)) > LIMIT => ~calls[u][k].ok

\* the sixth call was rejected, its time stayed in the window, and the
\* seventh, 60 seconds later, found seven timestamps and was rejected too
C37_Witness ==
    \E u \in Users :
        /\ Len(calls[u]) = LIMIT + 2
        /\ ~calls[u][LIMIT + 1].ok /\ calls[u][LIMIT + 1].t = 0
        /\ ~calls[u][LIMIT + 2].ok /\ calls[u][LIMIT + 2].t = WINDOW
        /\ ask_rate_limit[u] = <<0, 0, 0, 0, 0, 0, WINDOW>>

====
